---- MODULE Spec2Model ----
(***************************************************************************)
(* Model of the rocket veth network plugin (cmdAdd, cmdDel, main) as a     *)
(* sequence of short-lived plugin processes acting on one kernel: the      *)
(* links, addresses and routes of the host and of the container network    *)
(* namespace, and the IP allocator's held pairs.                           *)
(***************************************************************************)
EXTENDS Integers, Sequences, FiniteSets, TLC

\* ------------------------------------------------------------------ bounds
MaxInvocations == 3      \* plugin processes run one after the other
MaxRoutes == 2           \* longest route list of a network configuration
MaxBlocks == 2           \* /31 blocks in the allocator's pool

\* ------------------------------------------------------------------ inputs
Commands == {"", "ADD", "DEL", "MODIFY"}
ContIDs == {"", "abc123", "bad"}
\* the spellings types.NewUUID accepts: an identifier may be written with
\* dashes at any place
ValidUUIDs == {"abc123", "abc123-", "abc-123"}
NetNSPaths == {"", "/ns/c"}
IfNames == {"", "eth0"}
NetConfs == {"", "net.conf"}
ArgsValues == {"", "a=b"}
\* os.Args: the program name, optionally followed by one positional argument
OsArgsValues == {<<"veth">>, <<"veth", "ADD">>, <<"veth", "x">>}

HostNS == "host"
Envs == [cmd : Commands, contID : ContIDs, netns : NetNSPaths,
         args : ArgsValues, ifName : IfNames, netConf : NetConfs]
NoEnv == [cmd |-> "", contID |-> "", netns |-> "", args |-> "",
          ifName |-> "", netConf |-> ""]
NoPrev == [cmd |-> "", contID |-> "", netns |-> "", ifName |-> "",
           exit |-> -1, hostVeth |-> ""]

\* route texts of a configuration: text is a tuple of number fields
\* a.b.c.d/len ; anything else is not CIDR text
GoodCidr == <<10, 1, 0, 0, 24>>
NotACidr == <<110, 111, 116>>
RouteTexts == {GoodCidr, NotACidr}
RouteLists == UNION {[1..n -> RouteTexts] : n \in 0..MaxRoutes}

\* kernel outcomes of one netlink call
OK == "ok"
EEXIST == "EEXIST"
EOTHER == "EOTHER"

VARIABLES
  pairs,        \* kernel: veth pairs [host, ns, cont]
  addrs,        \* kernel: addresses [ns, dev, ip, ones]
  routes,       \* kernel: routes [ns, dst, gw, dev]
  held,         \* allocator: bases of the /31 blocks handed out
  inv,          \* number of plugin processes started
  prev,         \* summary of the previous plugin process
  pc,           \* position of the running process
  pinned,       \* runtime.LockOSThread was called
  env,          \* the six RKT_NETPLUGIN_* values read by main
  conf,         \* cmdAdd: conf.Routes
  hostIP, contIP,
  i,            \* cmdAdd: index of the route loop
  hostVethName, contIPNet,
  err,          \* the error being returned ("" is nil)
  curNS,        \* active network namespace of the thread
  savedNS,      \* WithNetNS: the captured namespace
  enters, restores,
  stdout,       \* payloads written with fmt.Print
  diag,         \* lines written with log.Print*
  exit,         \* exit status, -1 while running
  calls,        \* calls made by this process, <<name, outcome>>
  seedIn,       \* two (contID, ifName) pairs handed to the naming
  seedOut,      \* the host-side names derived from them
  imgArgs,      \* findImages: args, what the environment holds for each
  imgIdx,       \* findImages: index of the loop over args
  imgOut,       \* findImages: out
  imgPc,        \* findImages: position
  imgCalls,     \* findImages: calls made, <<index, name>>
  imgRet,       \* findImages: the returned (out, err)
  flagVolumes,  \* the volumeMap behind --volume
  volErr,       \* volumeMap.Set: the error returned last ("" is nil)
  volHist       \* the Set calls made so far, [s, ok]

kernel == <<pairs, addrs, routes, held>>
locals == <<conf, hostIP, contIP, i, hostVethName, contIPNet>>
nsvars == <<curNS, savedNS, enters, restores>>
io == <<stdout, diag, exit>>
plugin == <<pairs, addrs, routes, held, inv, prev, pc, pinned, env, conf,
            hostIP, contIP, i, hostVethName, contIPNet, err, curNS, savedNS,
            enters, restores, stdout, diag, exit, calls>>
seedvars == <<seedIn, seedOut>>
imgvars == <<imgArgs, imgIdx, imgOut, imgPc, imgCalls, imgRet>>
volvars == <<flagVolumes, volErr, volHist>>
others == <<seedvars, imgvars, volvars>>
vars == <<plugin, seedvars, imgvars, volvars>>

Call(name, outcome) == Append(calls, <<name, outcome>>)

PluginInit ==
  /\ pairs = {} /\ addrs = {} /\ routes = {} /\ held = {}
  /\ inv = 0 /\ prev = NoPrev /\ pc = "none" /\ pinned = FALSE
  /\ env = NoEnv /\ conf = <<>> /\ hostIP = 0 /\ contIP = 0 /\ i = 0
  /\ hostVethName = "" /\ contIPNet = <<>> /\ err = ""
  /\ curNS = HostNS /\ savedNS = "" /\ enters = 0 /\ restores = 0
  /\ stdout = <<>> /\ diag = <<>> /\ exit = -1 /\ calls = <<>>

\* the parts of the model a specification does not exercise stay put
NoRet == [out |-> <<>>, err |-> "running"]
SeedIdle == seedIn = <<>> /\ seedOut = <<>>
ImgIdle ==
  /\ imgArgs = <<>> /\ imgIdx = 0 /\ imgOut = <<>> /\ imgPc = "idle"
  /\ imgCalls = <<>> /\ imgRet = NoRet
VolIdle ==
  /\ flagVolumes = [k \in {} |-> <<>>] /\ volErr = "" /\ volHist = <<>>

Init == PluginInit /\ SeedIdle /\ ImgIdle /\ VolIdle

\* --------------------------------------------------------- process start
\* A new plugin process: fresh memory, the thread in the host namespace.
Exec ==
  /\ pc \in {"none", "exited"}
  /\ inv < MaxInvocations
  /\ inv' = inv + 1
  /\ prev' = IF pc = "none" THEN NoPrev
             ELSE [cmd |-> env.cmd, contID |-> env.contID, netns |-> env.netns,
                   ifName |-> env.ifName, exit |-> exit,
                   hostVeth |-> hostVethName]
  /\ pc' = "init" /\ pinned' = FALSE
  /\ env' = NoEnv /\ conf' = <<>> /\ hostIP' = 0 /\ contIP' = 0 /\ i' = 0
  /\ hostVethName' = "" /\ contIPNet' = <<>> /\ err' = ""
  /\ curNS' = HostNS /\ savedNS' = "" /\ enters' = 0 /\ restores' = 0
  /\ stdout' = <<>> /\ diag' = <<>> /\ exit' = -1 /\ calls' = <<>>
  /\ UNCHANGED <<others, kernel>>

\* an init that does not lock the thread
init_NoLock ==
  /\ pc = "init"
  /\ pinned' = FALSE
  /\ pc' = "main"
  /\ UNCHANGED <<kernel, others, inv, prev, env, locals, err, nsvars, io, calls>>

\* func init: runtime.LockOSThread()
init ==
  /\ pc = "init"
  /\ pinned' = TRUE
  /\ pc' = "main"
  /\ UNCHANGED <<kernel, others, inv, prev, env, locals, err, nsvars, io, calls>>

\* ------------------------------------------------------------------ main
\* main: the six os.Getenv reads
main_getenv ==
  /\ pc = "main"
  /\ \E e \in Envs : env' = e
  /\ pc' = "main_check"
  /\ UNCHANGED <<kernel, others, inv, prev, pinned, locals, err, nsvars, io, calls>>

\* the check with the configuration reference left out
MissingRequired_NoNetConf(e) ==
  e.cmd = "" \/ e.contID = "" \/ e.netns = "" \/ e.ifName = ""

MissingRequired(e) ==
  e.cmd = "" \/ e.contID = "" \/ e.netns = "" \/ e.ifName = "" \/ e.netConf = ""

\* main: required env variable missing => log, os.Exit(1)
main_check ==
  /\ pc = "main_check"
  /\ IF MissingRequired(env)
       THEN /\ diag' = diag \o <<[kind |-> "missing", text |-> "", err |-> ""],
                                 [kind |-> "env", text |-> "", err |-> ""]>>
            /\ exit' = 1
            /\ pc' = "exited"
       ELSE /\ pc' = "main_switch"
            /\ UNCHANGED <<diag, exit>>
  /\ UNCHANGED <<kernel, others, inv, prev, pinned, env, locals, err, nsvars, stdout,
                 calls>>

\* a switch whose default case falls into DEL
SwitchTarget_DefaultDel(cmd) ==
  CASE cmd = "ADD" -> "add_uuid"
    [] OTHER -> "ns_open"

\* main: switch cmd
SwitchTarget(cmd) ==
  CASE cmd = "ADD" -> "add_uuid"
    [] cmd = "DEL" -> "ns_open"
    [] OTHER -> "exited"

main_switch ==
  /\ pc = "main_switch"
  /\ pc' = SwitchTarget(env.cmd)
  /\ IF SwitchTarget(env.cmd) = "exited"
       THEN /\ diag' = Append(diag, [kind |-> "unknown", text |-> env.cmd,
                                     err |-> ""])
            /\ exit' = 1
       ELSE UNCHANGED <<diag, exit>>
  /\ UNCHANGED <<kernel, others, inv, prev, pinned, env, locals, err, nsvars, stdout,
                 calls>>

\* main: if err != nil { log.Printf("%v: %v", os.Args[1], err); os.Exit(1) }
\* os.Args[1] of a process started without a positional argument is an
\* index out of range: the Go runtime panics and the process exits with 2.
ReportPrefix(osArgs) == osArgs[2]

main_report ==
  /\ pc = "main_report"
  /\ pc' = "exited"
  /\ IF err = ""
       THEN exit' = 0 /\ UNCHANGED diag
       ELSE \E osArgs \in OsArgsValues :
              IF Len(osArgs) < 2
                THEN /\ diag' = Append(diag, [kind |-> "panic",
                                  text |-> "index out of range", err |-> ""])
                     /\ exit' = 2
                ELSE /\ diag' = Append(diag, [kind |-> "error",
                                  text |-> ReportPrefix(osArgs), err |-> err])
                     /\ exit' = 1
  /\ UNCHANGED <<kernel, others, inv, prev, pinned, env, locals, err, nsvars, stdout,
                 calls>>

\* ------------------------------------------------- namespace executor
\* util.WithNetNSPath / util.WithNetNS: open the namespace at path, capture
\* the current namespace, switch, run the callback, switch back.
Callback(cmd) == IF cmd = "ADD" THEN "cb_setup" ELSE "cb_del"

\* cmdAdd assigning the address without looking the host veth up again
AfterNS_SkipLookup(cmd, e) ==
  IF cmd = "ADD" /\ e = "" THEN "add_addr" ELSE "main_report"

\* where cmdAdd / cmdDel continue once WithNetNSPath has returned e
AfterNS(cmd, e) == IF cmd = "ADD" /\ e = "" THEN "add_lookup" ELSE "main_report"

WithNetNSPath_open ==
  /\ pc = "ns_open"
  /\ \E o \in {OK, EOTHER} :
       /\ calls' = Call("Open", o)
       /\ IF o = OK
            THEN pc' = "ns_enter" /\ UNCHANGED err
            ELSE err' = "NamespaceOpenError" /\ pc' = AfterNS(env.cmd, err')
  /\ UNCHANGED <<kernel, others, inv, prev, pinned, env, locals, nsvars, io>>

WithNetNS_enter ==
  /\ pc = "ns_enter"
  /\ savedNS' = curNS
  /\ \E o \in {OK, EOTHER} :
       /\ calls' = Call("Enter", o)
       /\ IF o = OK
            THEN /\ curNS' = env.netns
                 /\ enters' = enters + 1
                 /\ pc' = Callback(env.cmd)
                 /\ UNCHANGED err
            ELSE /\ err' = "NamespaceEnterError"
                 /\ pc' = AfterNS(env.cmd, err')
                 /\ UNCHANGED <<curNS, enters>>
  /\ UNCHANGED <<kernel, others, inv, prev, pinned, env, locals, restores, io>>

\* a WithNetNS that switches back only after a successful callback
CallbackReturn_SkipOnError(e) ==
  IF e = "" THEN "ns_restore" ELSE AfterNS(env.cmd, e)

\* where WithNetNS continues when the callback has returned e: the restore
\* runs whether or not the callback failed
CallbackReturn(e) == "ns_restore"

\* the error WithNetNS returns: the callback's, unless the restore failed
RestoreResult(o, cbErr) == IF o = OK THEN cbErr ELSE "NamespaceRestoreError"

WithNetNS_restore ==
  /\ pc = "ns_restore"
  /\ restores' = restores + 1
  /\ \E o \in {OK, EOTHER} :
       /\ calls' = Call("Restore", o)
       /\ curNS' = IF o = OK THEN savedNS ELSE curNS
       /\ err' = RestoreResult(o, err)
       /\ pc' = AfterNS(env.cmd, err')
  /\ UNCHANGED <<kernel, others, inv, prev, pinned, env, locals, savedNS, enters, io>>

\* ---------------------------------------------------------------- kernel
\* the veth pairs whose container end is the link `name` of namespace ns
LinksNamed(ns, name) == {p \in pairs : p.ns = ns /\ p.cont = name}

\* deleting one end of a veth pair removes the pair with all its addresses
\* and routes
OnPair(x, p) ==
  \/ x.ns = p.ns /\ x.dev = p.cont
  \/ x.ns = HostNS /\ x.dev = p.host

\* ---------------------------------------------------------------- cmdDel
\* a DelLinkByName that reports a missing link
DelLinkOutcomes_Strict(found) == IF found = {} THEN {EOTHER} ELSE {OK, EOTHER}

\* cmdDel handing the container ID to DelLinkByName
DelTarget_ContID(e) == e.contID
\* the interface cmdDel deletes
DelTarget(e) == e.ifName
\* util.DelLinkByName(ifName): a link that does not exist is a success
DelLinkOutcomes(found) == IF found = {} THEN {OK} ELSE {OK, EOTHER}

\* a cmdDel that gives the allocator's blocks back
HeldAfterDel_Released(h) == {}

\* cmdDel makes no call to the allocator
HeldAfterDel(h) == h

cmdDel_callback ==
  /\ pc = "cb_del"
  /\ held' = HeldAfterDel(held)
  /\ LET found == LinksNamed(curNS, DelTarget(env)) IN
     \E o \in DelLinkOutcomes(found) :
       /\ calls' = Call("DelLinkByName", IF found = {} THEN "absent" ELSE o)
       /\ IF o = OK
            THEN /\ pairs' = pairs \ found
                 /\ addrs' = {a \in addrs : \A p \in found : ~OnPair(a, p)}
                 /\ routes' = {r \in routes : \A p \in found : ~OnPair(r, p)}
                 /\ UNCHANGED err
            ELSE /\ err' = "LinkDeleteError"
                 /\ UNCHANGED <<pairs, addrs, routes>>
  /\ pc' = CallbackReturn(err')
  /\ UNCHANGED <<others, inv, prev, pinned, env, locals, nsvars, io>>

\* ---------------------------------------------------------------- cmdAdd
PtPOnes == 31            \* net.CIDRMask(31, 32)
PoolBase == 10 * 16777216    \* 10.0.0.0
Pool == {PoolBase + 2 * k : k \in 0..(MaxBlocks - 1)}

\* net.IPNet.String(): the address in dotted form, then the prefix length
IPNetString(ip, ones) ==
  <<(ip \div 16777216) % 256, (ip \div 65536) % 256, (ip \div 256) % 256,
    ip % 256, ones>>

\* util.ParseCIDR: strict a.b.c.d/len
IsCIDR(t) ==
  /\ Len(t) = 5
  /\ \A k \in 1..4 : t[k] \in 0..255
  /\ t[5] \in 0..32
ParseCIDR(t) ==
  [ip |-> t[1] * 16777216 + t[2] * 65536 + t[3] * 256 + t[4], ones |-> t[5]]

\* types.NewUUID(contID)
NewUUID(s) == s \in ValidUUIDs

\* the parse error not returned
AfterUUID_NoReturn(ok) == "add_load"

\* if err != nil { return fmt.Errorf("error parsing ContainerID: ...") }
AfterUUID(ok) == IF ok THEN "add_load" ELSE "main_report"

cmdAdd_NewUUID ==
  /\ pc = "add_uuid"
  /\ pc' = AfterUUID(NewUUID(env.contID))
  /\ IF NewUUID(env.contID)
       THEN /\ calls' = Call("NewUUID", OK)
            /\ UNCHANGED err
       ELSE /\ calls' = Call("NewUUID", EOTHER)
            /\ err' = "InvalidIdentity"
  /\ UNCHANGED <<kernel, others, inv, prev, pinned, env, locals, nsvars, io>>

\* util.LoadNet(netConf, &conf): the resource is missing or malformed, or
\* it holds a route list
cmdAdd_LoadNet ==
  /\ pc = "add_load"
  /\ \/ /\ calls' = Call("LoadNet", EOTHER)
        /\ err' = "ConfigLoadError"
        /\ pc' = "main_report"
        /\ UNCHANGED conf
     \/ /\ \E rs \in RouteLists : conf' = rs
        /\ calls' = Call("LoadNet", OK)
        /\ pc' = "add_alloc"
        /\ UNCHANGED err
  /\ UNCHANGED <<kernel, others, inv, prev, pinned, env, hostIP, contIP, i,
                 hostVethName, contIPNet, nsvars, io>>

\* ipam.AllocPtP: two adjacent addresses of a free /31 block, or an error
Lowest(S) == CHOOSE b \in S : \A c \in S : b <= c

\* the allocator's answer for the block at base b: [hostIP, containerIP]
AllocResult(b) == <<b, b + 1>>

\* both addresses taken from ips[0]
ContOf_First(ips) == ips[1]

\* hostIP, contIP := ips[0], ips[1]
HostOf(ips) == ips[1]
ContOf(ips) == ips[2]

cmdAdd_AllocPtP ==
  /\ pc = "add_alloc"
  /\ \/ /\ calls' = Call("AllocPtP", EOTHER)
        /\ err' = "AllocationError"
        /\ pc' = "main_report"
        /\ UNCHANGED <<held, hostIP, contIP>>
     \/ /\ Pool \ held # {}
        /\ LET b == Lowest(Pool \ held)
               ips == AllocResult(b) IN
             /\ held' = held \cup {b}
             /\ hostIP' = HostOf(ips)
             /\ contIP' = ContOf(ips)
        /\ calls' = Call("AllocPtP", OK)
        /\ pc' = "ns_open"
        /\ UNCHANGED err
  /\ UNCHANGED <<pairs, addrs, routes, others, inv, prev, pinned, env, conf, i,
                 hostVethName, contIPNet, nsvars, io>>

\* entropy := contID + ifName
Entropy(e) == e.contID \o e.ifName
\* util.SetupVeth names the host end after the seed
VethName(seed) == "veth" \o seed

SetupVethOutcomes(ns, ifName, hostName) ==
  IF \E p \in pairs : (p.ns = ns /\ p.cont = ifName) \/ p.host = hostName
    THEN {EEXIST}
    ELSE {OK, EOTHER}

\* util.SetupVeth(entropy, ifName, ipn, hostNS)
cmdAdd_SetupVeth ==
  /\ pc = "cb_setup"
  /\ LET hostName == VethName(Entropy(env)) IN
     \E o \in SetupVethOutcomes(curNS, env.ifName, hostName) :
       /\ calls' = Call("SetupVeth", o)
       /\ IF o = OK
            THEN /\ pairs' = pairs \cup
                       {[host |-> hostName, ns |-> curNS, cont |-> env.ifName]}
                 /\ addrs' = addrs \cup
                       {[ns |-> curNS, dev |-> env.ifName, ip |-> contIP,
                         ones |-> PtPOnes]}
                 /\ i' = 1
                 /\ pc' = "cb_route"
                 /\ UNCHANGED err
            ELSE /\ err' = "LinkSetupError"
                 /\ pc' = CallbackReturn(err')
                 /\ UNCHANGED <<pairs, addrs, i>>
  /\ UNCHANGED <<routes, held, others, inv, prev, pinned, env, conf, hostIP, contIP,
                 hostVethName, contIPNet, nsvars, io>>

\* the container address handed to AddRoute as next hop
RouteGw_Cont(h, c) == c

\* util.AddRoute(dst, hostIP, contVeth): the next hop is hostIP
RouteGw(h, c) == h

\* util.AddRoute: what the kernel answers
AddRouteOutcomes(ns, dst) ==
  IF \E r \in routes : r.ns = ns /\ r.dst = dst
    THEN {EEXIST}
    ELSE {OK, EEXIST, EOTHER}

\* a callback that takes its routes out again before it returns an error
KeptOnError_Flushed(rs) ==
  {r \in rs : ~(r.ns = curNS /\ r.dev = env.ifName)}

\* return fmt.Errorf(...): the routes installed so far stay
KeptOnError(rs) == rs

\* one turn of: for _, r := range conf.Routes
cmdAdd_Route ==
  /\ pc = "cb_route"
  /\ i <= Len(conf)
  /\ IF ~IsCIDR(conf[i])
       THEN /\ calls' = Call("ParseCIDR", EOTHER)
            /\ err' = "RouteParseError"
            /\ pc' = CallbackReturn(err')
            /\ routes' = KeptOnError(routes)
            /\ UNCHANGED i
       ELSE LET dst == ParseCIDR(conf[i]) IN
            \E o \in AddRouteOutcomes(curNS, dst) :
              /\ calls' = calls \o <<<<"ParseCIDR", OK>>, <<"AddRoute", o>>>>
              /\ IF o = OK
                   THEN /\ routes' = routes \cup
                              {[ns |-> curNS, dst |-> dst,
                                gw |-> RouteGw(hostIP, contIP),
                                dev |-> env.ifName]}
                        /\ i' = i + 1
                        /\ pc' = "cb_route"
                        /\ UNCHANGED err
                   ELSE /\ err' = "RouteInstallError"
                        /\ pc' = CallbackReturn(err')
                        /\ routes' = KeptOnError(routes)
                        /\ UNCHANGED i
  /\ UNCHANGED <<pairs, addrs, held, others, inv, prev, pinned, env, conf, hostIP,
                 contIP, hostVethName, contIPNet, nsvars, io>>

\* hostVethName = hostVeth.Attrs().Name; contIPNet = ipn.String(); return nil
cmdAdd_Record ==
  /\ pc = "cb_route"
  /\ i > Len(conf)
  /\ hostVethName' = VethName(Entropy(env))
  /\ contIPNet' = IPNetString(contIP, PtPOnes)
  /\ pc' = CallbackReturn(err)
  /\ UNCHANGED <<kernel, others, inv, prev, pinned, env, conf, hostIP, contIP, i, err,
                 nsvars, io, calls>>

\* netlink.LinkByName(hostVethName), in the namespace the thread is in
LinkByNameOutcomes(ns, name) ==
  IF ns = HostNS /\ \E p \in pairs : p.host = name
    THEN {OK, EOTHER}
    ELSE {EOTHER}

cmdAdd_LinkByName ==
  /\ pc = "add_lookup"
  /\ \E o \in LinkByNameOutcomes(curNS, hostVethName) :
       /\ calls' = Call("LinkByName", o)
       /\ IF o = OK
            THEN pc' = "add_addr" /\ UNCHANGED err
            ELSE err' = "LinkLookupError" /\ pc' = "main_report"
  /\ UNCHANGED <<kernel, others, inv, prev, pinned, env, locals, nsvars, io>>

\* the error of AddrAdd dropped
AddrAddFails_Ignored(o) == FALSE

\* netlink.AddrAdd(hostVeth, addr): any error fails cmdAdd
AddrAddFails(o) == o # OK

cmdAdd_AddrAdd ==
  /\ pc = "add_addr"
  /\ \E o \in {OK, EEXIST, EOTHER} :
       /\ calls' = Call("AddrAdd", o)
       /\ IF AddrAddFails(o)
            THEN /\ err' = "AddressAssignError"
                 /\ pc' = "main_report"
                 /\ UNCHANGED addrs
            ELSE /\ addrs' = addrs \cup
                       {[ns |-> curNS, dev |-> hostVethName, ip |-> hostIP,
                         ones |-> PtPOnes]}
                 /\ pc' = "add_hostroute"
                 /\ UNCHANGED err
  /\ UNCHANGED <<pairs, routes, held, others, inv, prev, pinned, env, locals, nsvars,
                 io>>

\* the host route check without the os.IsExist exemption
HostRouteFails_NoTolerance(o) == o # OK

\* err != nil && !os.IsExist(err)
HostRouteFails(o) == o # OK /\ o # EEXIST

\* util.AddHostRoute(ipn, nil, hostVeth): the route is in the table when the
\* kernel accepts it and when the kernel says it exists
cmdAdd_AddHostRoute ==
  /\ pc = "add_hostroute"
  /\ \E o \in {OK, EEXIST, EOTHER} :
       /\ calls' = Call("AddHostRoute", o)
       /\ routes' = IF o \in {OK, EEXIST}
                      THEN routes \cup
                             {[ns |-> curNS,
                               dst |-> [ip |-> hostIP, ones |-> PtPOnes],
                               gw |-> 0, dev |-> hostVethName]}
                      ELSE routes
       /\ IF HostRouteFails(o)
            THEN err' = "HostRouteError" /\ pc' = "main_report"
            ELSE pc' = "add_print" /\ UNCHANGED err
  /\ UNCHANGED <<pairs, addrs, held, others, inv, prev, pinned, env, locals, nsvars,
                 io>>

\* fmt.Print(contIPNet); return nil
cmdAdd_Print ==
  /\ pc = "add_print"
  /\ stdout' = Append(stdout, contIPNet)
  /\ calls' = Call("Print", OK)
  /\ pc' = "main_report"
  /\ UNCHANGED <<kernel, others, inv, prev, pinned, env, locals, err, nsvars, diag,
                 exit>>

Next ==
  \/ Exec
  \/ init
  \/ main_getenv
  \/ main_check
  \/ main_switch
  \/ main_report
  \/ WithNetNSPath_open
  \/ WithNetNS_enter
  \/ WithNetNS_restore
  \/ cmdDel_callback
  \/ cmdAdd_NewUUID
  \/ cmdAdd_LoadNet
  \/ cmdAdd_AllocPtP
  \/ cmdAdd_SetupVeth
  \/ cmdAdd_Route
  \/ cmdAdd_Record
  \/ cmdAdd_LinkByName
  \/ cmdAdd_AddrAdd
  \/ cmdAdd_AddHostRoute
  \/ cmdAdd_Print

Spec == Init /\ [][Next]_vars

\* ====================================================================
\* Properties
\* ====================================================================
Range(f) == {f[k] : k \in DOMAIN f}
Called(name) == \E k \in DOMAIN calls : calls[k][1] = name
SomeRequiredEmpty ==
  env.cmd = "" \/ env.contID = "" \/ env.netns = "" \/ env.ifName = ""
    \/ env.netConf = ""
EnvRead == pc \notin {"none", "init", "main"}
Returned == pc \in {"main_report", "exited"}
Dispatched == EnvRead /\ ~SomeRequiredEmpty /\ env.cmd \in {"ADD", "DEL"}

\* C1: once main has validated an environment in which a required value
\* (command, container ID, namespace path, interface name, configuration
\* reference) is empty, the process has exited with status 1 and has made
\* no call at all (no parse, load, allocation, namespace entry, kernel
\* call); the "missing" diagnostic is written only in that case, so an
\* empty arguments value alone never causes it.
C1_MissingParameter ==
  /\ (EnvRead /\ pc # "main_check" /\ SomeRequiredEmpty) =>
       /\ pc = "exited" /\ exit = 1
       /\ calls = <<>> /\ enters = 0 /\ stdout = <<>>
  /\ (EnvRead /\ ~SomeRequiredEmpty) =>
       \A k \in DOMAIN diag : diag[k].kind # "missing"
C1_Witness ==
  /\ pc = "exited" /\ exit = 1 /\ calls = <<>>
  /\ env.cmd = "ADD" /\ env.contID = "abc123" /\ env.netns = "/ns/c"
  /\ env.ifName = "eth0" /\ env.netConf = "" /\ env.args = "a=b"

\* C2: with every required value present and a command that is neither ADD
\* nor DEL, the process exits with status 1, its only diagnostic names the
\* command value, and it has made no call.
C2_UnknownCommand ==
  (EnvRead /\ pc \notin {"main_check", "main_switch"} /\ ~SomeRequiredEmpty
     /\ env.cmd \notin {"ADD", "DEL"}) =>
    /\ pc = "exited" /\ exit = 1
    /\ diag = <<[kind |-> "unknown", text |-> env.cmd, err |-> ""]>>
    /\ calls = <<>> /\ enters = 0 /\ stdout = <<>>
C2_Witness ==
  /\ pc = "exited" /\ exit = 1 /\ env.cmd = "MODIFY" /\ ~SomeRequiredEmpty
  /\ diag = <<[kind |-> "unknown", text |-> "MODIFY", err |-> ""]>>

\* C3 (as claimed): a process that has exited has status 0 exactly when it
\* dispatched ADD or DEL and the operation returned no error, and status 1
\* otherwise; no other status occurs.
C3_ExitStatus ==
  pc = "exited" =>
    /\ exit \in {0, 1}
    /\ exit = 0 <=> (Dispatched /\ err = "")

\* C4 (as claimed): whenever cmdAdd or cmdDel returned an error, the
\* diagnostic of the exited process holds a line made of the dispatched
\* command value and the error, whatever the positional arguments.
C4_ErrorNamesCommand ==
  (pc = "exited" /\ Dispatched /\ err # "") =>
    \E k \in DOMAIN diag :
      diag[k].kind = "error" /\ diag[k].text = env.cmd /\ diag[k].err = err

\* C5: standard output holds at most one payload; it is written only by an
\* ADD, as the last call of cmdAdd, after every earlier call succeeded (the
\* host route may have answered "exists"), and it is containerIP/31; an ADD
\* that returned no error has written it exactly once; a process that
\* fails, and every DEL, has written nothing.
C5_OutputPayload ==
  /\ Len(stdout) <= 1
  /\ stdout # <<>> =>
       /\ env.cmd = "ADD" /\ err = ""
       /\ calls[Len(calls)] = <<"Print", OK>>
       /\ \A k \in 1..(Len(calls) - 1) :
            calls[k][2] = OK \/ calls[k] = <<"AddHostRoute", EEXIST>>
       /\ Len(stdout[1]) = 5 /\ stdout[1][5] = 31
       /\ stdout[1][1] * 16777216 + stdout[1][2] * 65536 + stdout[1][3] * 256
            + stdout[1][4] = contIP
       /\ \A k \in 1..4 : stdout[1][k] \in 0..255
  /\ (Returned /\ Dispatched /\ env.cmd = "ADD" /\ err = "") => Len(stdout) = 1
  /\ (Returned /\ err # "") => stdout = <<>>
  /\ env.cmd # "ADD" => stdout = <<>>
C5_Witness ==
  /\ pc = "exited" /\ exit = 0 /\ env.cmd = "ADD"
  /\ stdout = << <<10, 0, 0, 1, 31>> >>
  /\ Len(conf) = 1

\* C6 (as claimed): once cmdAdd or cmdDel has returned, whatever step
\* failed, the thread is in the host namespace and there were as many
\* restores as enters.
C6_NamespaceRestored ==
  (Returned /\ Dispatched) => (curNS = HostNS /\ restores = enters)

\* C6 (amended): once WithNetNSPath has returned, in cmdAdd or cmdDel, there
\* was exactly one restore attempt per enter, also when the callback returned
\* an error; the thread is in the host namespace unless that restore itself
\* failed, and then the operation returns NamespaceRestoreError.
NsReturned ==
  Dispatched /\ pc \in {"add_lookup", "add_addr", "add_hostroute",
                        "add_print", "main_report", "exited"}
C6_RestoreBalanced ==
  /\ restores <= enters
  /\ NsReturned =>
       /\ restores = enters
       /\ curNS # HostNS =>
            /\ err = "NamespaceRestoreError"
            /\ <<"Restore", EOTHER>> \in Range(calls)
       /\ (enters = 1 /\ <<"Restore", OK>> \in Range(calls)) => curNS = HostNS
C6_Witness ==
  /\ pc = "exited" /\ env.cmd = "ADD" /\ err = "RouteParseError"
  /\ enters = 1 /\ restores = 1 /\ curNS = HostNS

\* C7: a cmdDel whose callback found no interface of that name in the
\* namespace it entered, and whose namespace switch back succeeded, returns
\* no error; so a DEL that follows a successful DEL for the same namespace
\* path and interface name, once inside the namespace, finds nothing to
\* delete, changes nothing and succeeds as well.
NsBracketOK ==
  <<"Enter", OK>> \in Range(calls) /\ <<"Restore", OK>> \in Range(calls)
SameTargetAsPrev == env.netns = prev.netns /\ env.ifName = prev.ifName
C7_DelIdempotent ==
  /\ (Returned /\ Dispatched /\ env.cmd = "DEL" /\ NsBracketOK
        /\ <<"DelLinkByName", "absent">> \in Range(calls)) =>
       (err = "" /\ exit \in {-1, 0})
  /\ (Dispatched /\ env.cmd = "DEL" /\ prev.cmd = "DEL" /\ prev.exit = 0
        /\ SameTargetAsPrev /\ Called("DelLinkByName")) =>
       /\ <<"DelLinkByName", "absent">> \in Range(calls)
       /\ (Returned /\ NsBracketOK) => err = ""
       /\ pc = "exited" => (exit = 0 <=> NsBracketOK)
C7_Witness ==
  /\ pc = "exited" /\ exit = 0 /\ env.cmd = "DEL"
  /\ prev.cmd = "DEL" /\ prev.exit = 0 /\ SameTargetAsPrev
  /\ <<"DelLinkByName", "absent">> \in Range(calls)
  /\ NsBracketOK

\* C8: when a successful ADD is followed at once by a successful DEL with the
\* same namespace path and interface name, neither the interface of that
\* name in the container namespace nor the host-side veth the ADD created
\* exists any more, and no address or route is left on either.
C8_RoundTrip ==
  (pc = "exited" /\ exit = 0 /\ env.cmd = "DEL" /\ prev.cmd = "ADD"
     /\ prev.exit = 0 /\ SameTargetAsPrev) =>
    /\ \A p \in pairs :
         ~(p.ns = env.netns /\ p.cont = env.ifName) /\ p.host # prev.hostVeth
    /\ \A x \in addrs \cup routes :
         ~(x.ns = env.netns /\ x.dev = env.ifName)
           /\ ~(x.ns = HostNS /\ x.dev = prev.hostVeth)
C8_Witness ==
  /\ pc = "exited" /\ exit = 0 /\ env.cmd = "DEL" /\ prev.cmd = "ADD"
  /\ prev.exit = 0 /\ SameTargetAsPrev /\ prev.hostVeth = "vethabc123eth0"
  /\ <<"DelLinkByName", OK>> \in Range(calls)
  /\ pairs = {}

\* C9 (as claimed): when the callback of ADD fails with a route-parse error,
\* no route has been installed by this invocation; and an ADD whose route
\* list holds an entry that is not CIDR text, at any position, does not
\* succeed.
C9_NoPartialRoutes ==
  /\ (env.cmd = "ADD" /\ err = "RouteParseError") =>
       <<"AddRoute", OK>> \notin Range(calls)
  /\ (Returned /\ Dispatched /\ env.cmd = "ADD" /\ err = "") =>
       \A k \in DOMAIN conf : IsCIDR(conf[k])

\* C10: an ADD whose host route call answered "already exists" returns no
\* error and has printed the container CIDR; one whose host route call
\* failed otherwise returns HostRouteError; and an ADD that returned no
\* error had no failing call other than a host route "already exists"
\* (an "already exists" from AddrAdd or AddRoute fails it).
C10_HostRouteTolerance ==
  (Dispatched /\ env.cmd = "ADD") =>
    /\ (Returned /\ <<"AddHostRoute", EEXIST>> \in Range(calls)) =>
         /\ err = "" /\ exit \in {-1, 0}
         /\ stdout = <<contIPNet>> /\ contIPNet # <<>>
    /\ (Returned /\ <<"AddHostRoute", EOTHER>> \in Range(calls)) =>
         /\ err = "HostRouteError" /\ exit # 0 /\ stdout = <<>>
    /\ (Returned /\ err = "") =>
         \A k \in DOMAIN calls :
           calls[k][2] = OK \/ calls[k] = <<"AddHostRoute", EEXIST>>
    /\ (Returned /\ (<<"AddrAdd", EEXIST>> \in Range(calls)
                      \/ <<"AddRoute", EEXIST>> \in Range(calls))) =>
         err # ""
C10_Witness ==
  /\ pc = "exited" /\ exit = 0 /\ env.cmd = "ADD"
  /\ <<"AddHostRoute", EEXIST>> \in Range(calls)
  /\ stdout = << <<10, 0, 0, 1, 31>> >>

\* C11: an ADD that returned no error, with allocator answer
\* (hostIP, containerIP), leaves in the container namespace the interface
\* named by the interface name with address containerIP/31 and one route per
\* configured CIDR with next hop hostIP over it, in the host namespace the
\* host-side veth with address hostIP/31 and a route for that /31 over it,
\* and has printed containerIP/31; with the first block of the pool,
\* (10.0.0.0, 10.0.0.1), the text is 10.0.0.1/31.
MaxOf(S) == CHOOSE b \in S : \A c \in S : c <= b
AddSucceeded == Returned /\ Dispatched /\ env.cmd = "ADD" /\ err = ""
C11_AddPostcondition ==
  AddSucceeded =>
    /\ held # {} /\ hostIP = MaxOf(held) /\ contIP = hostIP + 1
    /\ \E p \in pairs :
         /\ p.ns = env.netns /\ p.cont = env.ifName
         /\ p.host = hostVethName /\ hostVethName # ""
    /\ [ns |-> env.netns, dev |-> env.ifName, ip |-> contIP, ones |-> 31]
         \in addrs
    /\ \A k \in DOMAIN conf :
         \E r \in routes :
           /\ r.ns = env.netns /\ r.dev = env.ifName /\ r.gw = hostIP
           /\ r.dst.ones = conf[k][5]
           /\ r.dst.ip = conf[k][1] * 16777216 + conf[k][2] * 65536
                           + conf[k][3] * 256 + conf[k][4]
    /\ Cardinality({r \in routes : r.ns = env.netns /\ r.dev = env.ifName})
         = Len(conf)
    /\ [ns |-> HostNS, dev |-> hostVethName, ip |-> hostIP, ones |-> 31]
         \in addrs
    /\ \E r \in routes :
         /\ r.ns = HostNS /\ r.dev = hostVethName
         /\ r.dst = [ip |-> hostIP, ones |-> 31]
    /\ stdout[1][5] = 31
    /\ stdout[1][1] * 16777216 + stdout[1][2] * 65536 + stdout[1][3] * 256
         + stdout[1][4] = contIP
    /\ held = {10 * 16777216} => stdout = << <<10, 0, 0, 1, 31>> >>
C11_Witness ==
  /\ pc = "exited" /\ exit = 0 /\ env.cmd = "ADD"
  /\ env.contID = "abc123" /\ env.ifName = "eth0"
  /\ conf = << <<10, 1, 0, 0, 24>> >>
  /\ hostIP = 10 * 16777216 /\ contIP = 10 * 16777216 + 1
  /\ stdout = << <<10, 0, 0, 1, 31>> >>
  /\ [ns |-> "/ns/c", dst |-> [ip |-> 10 * 16777216 + 65536, ones |-> 24],
      gw |-> 10 * 16777216, dev |-> "eth0"] \in routes
  /\ [ns |-> HostNS, dev |-> "vethabc123eth0", ip |-> 10 * 16777216,
      ones |-> 31] \in addrs

\* C13: after an ADD that returned no error, hostIP and containerIP differ
\* and lie in the same block of two addresses, and so do the address on the
\* host-side veth and the address on the container-side interface, both
\* with a /31 mask.
C13_PointToPoint ==
  AddSucceeded =>
    /\ hostIP # contIP
    /\ hostIP \div 2 = contIP \div 2
    /\ \A a \in addrs : \A b \in addrs :
         (a.ns = HostNS /\ a.dev = hostVethName
            /\ b.ns = env.netns /\ b.dev = env.ifName) =>
           /\ a.ip = hostIP /\ b.ip = contIP
           /\ a.ip # b.ip /\ a.ip \div 2 = b.ip \div 2
           /\ a.ones = 31 /\ b.ones = 31
C13_Witness ==
  /\ pc = "exited" /\ exit = 0 /\ env.cmd = "ADD"
  /\ hostIP = 10 * 16777216 + 2 /\ contIP = 10 * 16777216 + 3
  /\ [ns |-> HostNS, dev |-> hostVethName, ip |-> hostIP, ones |-> 31]
       \in addrs

\* C14: the calls of cmdAdd start NewUUID, LoadNet, AllocPtP, open and
\* enter of the namespace, each made only after the one before succeeded; a
\* malformed container ID ends cmdAdd with InvalidIdentity after the parse
\* alone, a configuration load failure after parse and load alone, and an
\* allocator error is returned as it is after the third call, all without
\* any namespace entry.
AddRunning ==
  Dispatched /\ env.cmd = "ADD" /\ pc \notin {"main_check", "main_switch"}
C14_OrderBeforeNamespace ==
  AddRunning =>
    /\ Len(calls) >= 1 => calls[1][1] = "NewUUID"
    /\ Len(calls) >= 2 => (calls[2][1] = "LoadNet" /\ calls[1][2] = OK)
    /\ Len(calls) >= 3 => (calls[3][1] = "AllocPtP" /\ calls[2][2] = OK)
    /\ Len(calls) >= 4 => (calls[4][1] = "Open" /\ calls[3][2] = OK)
    /\ Len(calls) >= 5 => (calls[5][1] = "Enter" /\ calls[4][2] = OK)
    /\ enters > 0 => Len(calls) >= 5
    /\ hostIP # 0 => Len(calls) >= 3
    /\ conf # <<>> => Len(calls) >= 2
    /\ (env.contID \notin ValidUUIDs /\ pc # "add_uuid") =>
         /\ calls = << <<"NewUUID", EOTHER>> >>
         /\ err = "InvalidIdentity" /\ Returned
         /\ enters = 0 /\ hostIP = 0 /\ conf = <<>>
    /\ <<"LoadNet", EOTHER>> \in Range(calls) =>
         /\ Len(calls) = 2 /\ err = "ConfigLoadError" /\ Returned
         /\ enters = 0 /\ hostIP = 0
    /\ <<"AllocPtP", EOTHER>> \in Range(calls) =>
         /\ Len(calls) = 3 /\ err = "AllocationError" /\ Returned
         /\ enters = 0 /\ hostIP = 0
C14_Witness ==
  /\ pc = "exited" /\ env.cmd = "ADD" /\ env.contID = "bad"
  /\ ~SomeRequiredEmpty /\ err = "InvalidIdentity"
  /\ calls = << <<"NewUUID", EOTHER>> >>

\* C15: in an ADD, veth creation and every container route installation
\* happen after the enter and before the restore, with the thread in the
\* container namespace; the host-side lookup, address assignment and route
\* installation happen after the restore, with the thread in the host
\* namespace, in the order lookup, address, route.
C15_OrderAroundNamespace ==
  AddRunning =>
    /\ pc \in {"cb_setup", "cb_route"} =>
         (curNS = env.netns /\ curNS # HostNS /\ enters = 1 /\ restores = 0)
    /\ pc \in {"add_lookup", "add_addr", "add_hostroute", "add_print"} =>
         (curNS = HostNS /\ enters = 1 /\ restores = 1)
    /\ \A k \in DOMAIN calls :
         /\ calls[k][1] \in {"SetupVeth", "ParseCIDR", "AddRoute"} =>
              /\ \E e \in 1..(k - 1) : calls[e] = <<"Enter", OK>>
              /\ \A r \in 1..(k - 1) : calls[r][1] # "Restore"
         /\ calls[k][1] \in {"LinkByName", "AddrAdd", "AddHostRoute"} =>
              \E r \in 1..(k - 1) : calls[r] = <<"Restore", OK>>
         /\ calls[k][1] = "LinkByName" => calls[k - 1] = <<"Restore", OK>>
         /\ calls[k][1] = "AddrAdd" => calls[k - 1] = <<"LinkByName", OK>>
         /\ calls[k][1] = "AddHostRoute" => calls[k - 1] = <<"AddrAdd", OK>>
    /\ \A p \in pairs : p.ns # HostNS
    /\ \A r \in routes : (r.gw = 0) <=> (r.ns = HostNS)
    /\ \A a \in addrs : (a.dev = env.ifName) <=> (a.ns # HostNS)
C15_Witness ==
  /\ pc = "add_print" /\ env.cmd = "ADD" /\ curNS = HostNS
  /\ <<"AddRoute", OK>> \in Range(calls)
  /\ calls[Len(calls)] = <<"AddHostRoute", OK>>

\* C16: when an ADD returns an error after its veth pair was created, the
\* pair, the container address, every container route it installed and the
\* host address, if it was assigned, are still there; and a DEL for the
\* same namespace path and interface name that follows a failed ADD and
\* returns no error leaves no interface of that name, nor address or route
\* on it.
InstalledRoutes == {k \in DOMAIN calls : calls[k] = <<"AddRoute", OK>>}
C16_NoRollback ==
  /\ (Returned /\ Dispatched /\ env.cmd = "ADD" /\ err # ""
        /\ <<"SetupVeth", OK>> \in Range(calls)) =>
       /\ [host |-> "veth" \o env.contID \o env.ifName, ns |-> env.netns,
           cont |-> env.ifName] \in pairs
       /\ [ns |-> env.netns, dev |-> env.ifName, ip |-> contIP, ones |-> 31]
            \in addrs
       /\ Cardinality({r \in routes : r.ns = env.netns /\ r.dev = env.ifName})
            = Cardinality(InstalledRoutes)
       /\ <<"AddrAdd", OK>> \in Range(calls) =>
            [ns |-> HostNS, dev |-> hostVethName, ip |-> hostIP, ones |-> 31]
              \in addrs
  /\ (Returned /\ Dispatched /\ env.cmd = "DEL" /\ err = ""
        /\ prev.cmd = "ADD" /\ prev.exit > 0 /\ SameTargetAsPrev) =>
       /\ \A p \in pairs : ~(p.ns = env.netns /\ p.cont = env.ifName)
       /\ \A x \in addrs \cup routes :
            ~(x.ns = env.netns /\ x.dev = env.ifName)
C16_Witness ==
  /\ pc = "exited" /\ env.cmd = "ADD" /\ err = "RouteParseError"
  /\ Cardinality(InstalledRoutes) = 1
  /\ Cardinality(routes) = 1 /\ Cardinality(pairs) = 1

\* C17: the thread is locked from the end of init on: it is not locked
\* before init has run, main has read no parameter by then, and it is
\* locked in every later state of the process, so at every call, namespace
\* enter and restore.
C17_ThreadPinned ==
  /\ pinned <=> pc \notin {"none", "init"}
  /\ ~pinned => (env = NoEnv /\ calls = <<>> /\ enters = 0 /\ restores = 0)
  /\ (calls # <<>> \/ enters > 0 \/ restores > 0 \/ curNS # HostNS) => pinned
C17_Witness ==
  /\ pinned /\ pc = "exited" /\ exit = 0 /\ env.cmd = "ADD"
  /\ enters = 1 /\ restores = 1
  /\ <<"AddRoute", OK>> \in Range(calls)

\* C18: no step of any process takes a block out of the allocator's held
\* set, and a step of a DEL process leaves the set as it is: what an ADD
\* allocated is still held after that ADD failed and after a later DEL.
C18_NeverReleased ==
  [][held \subseteq held' /\ (env.cmd = "DEL" => held' = held)]_vars
C18_Witness ==
  /\ pc = "exited" /\ exit = 0 /\ env.cmd = "DEL"
  /\ <<"DelLinkByName", OK>> \in Range(calls)
  /\ prev.cmd = "ADD" /\ pairs = {} /\ held = {10 * 16777216}

\* ------------------------------------------------------------ veth naming
\* The seed and the host-side name as a function of (contID, ifName): two
\* ADD invocations reach line 59 with their raw invocation strings.
SeedIfNames == {"eth0", "eth1", "-eth0"}
SeedPairs == [contID : ValidUUIDs, ifName : SeedIfNames]

InitSeed ==
  /\ PluginInit /\ ImgIdle /\ VolIdle
  /\ seedIn \in SeedPairs \X SeedPairs
  /\ seedOut = <<>>

\* lines 59 and 66: the seed of each invocation, and the name made from it
DeriveNames ==
  /\ seedOut = <<>>
  /\ seedOut' = [k \in 1..2 |-> [seed |-> Entropy(seedIn[k]),
                                 host |-> VethName(Entropy(seedIn[k]))]]
  /\ UNCHANGED <<plugin, seedIn, imgvars, volvars>>

NextSeed == DeriveNames
SpecSeed == InitSeed /\ [][NextSeed]_vars

\* C12: the seed and the host-side name are a function of (contID, ifName):
\* the same pair gives the same seed and name, and two different valid
\* pairs never give the same seed or the same host-side name.
C12_SeedInjective ==
  seedOut # <<>> =>
    /\ seedIn[1] = seedIn[2] => seedOut[1] = seedOut[2]
    /\ seedIn[1] # seedIn[2] =>
         /\ seedOut[1].seed # seedOut[2].seed
         /\ seedOut[1].host # seedOut[2].host

\* -------------------------------------------------------------- findImages
MaxImages == 2

\* What the environment holds for one IMAGE argument: whether types.NewHash
\* accepts the string, whether the store resolves it, whether os.Open
\* finds a file of that name, whether the store takes the file, and whether
\* fetchImage gets it.
Images ==
  [hash : BOOLEAN, resolves : BOOLEAN, file : BOOLEAN, write : BOOLEAN,
   fetch : BOOLEAN]
ArgLists == UNION {[1..n -> Images] : n \in 0..MaxImages}

\* a types.Hash: the key it was made from, and the argument it stands for
Hash(via, img) == [via |-> via, img |-> img]
ZeroHash == [via |-> "zero"]

\* out = make([]types.Hash, len(args))
InitImages ==
  /\ PluginInit /\ SeedIdle /\ VolIdle
  /\ imgArgs \in ArgLists
  /\ imgIdx = 1
  /\ imgOut = [k \in 1..Len(imgArgs) |-> ZeroHash]
  /\ imgPc = "hash"
  /\ imgCalls = <<>>
  /\ imgRet = NoRet

ImgCall(name) == <<imgIdx, name>>

\* out[i] = *h; continue
ImgUse(h) ==
  /\ imgOut' = [imgOut EXCEPT ![imgIdx] = h]
  /\ imgIdx' = imgIdx + 1
  /\ imgPc' = "hash"
  /\ imgRet' = imgRet

\* return nil, err
ImgFail(e) ==
  /\ imgRet' = [out |-> <<>>, err |-> e]
  /\ imgPc' = "returned"
  /\ UNCHANGED <<imgIdx, imgOut>>

\* the alternatives tried after a key the store does not resolve
HashStep_Fallback(a) ==
  IF a.hash /\ a.resolves THEN "use" ELSE "next"

\* what the hash attempt ends in: the hash is used, findImages fails, or
\* the next alternative is tried
HashStep(a) ==
  IF a.hash THEN (IF a.resolves THEN "use" ELSE "fail") ELSE "next"

findImages_NewHash ==
  /\ imgPc = "hash" /\ imgIdx <= Len(imgArgs)
  /\ LET a == imgArgs[imgIdx] IN
       /\ imgCalls' = imgCalls \o <<ImgCall("NewHash")>> \o
                        (IF a.hash THEN <<ImgCall("ResolveKey")>> ELSE <<>>)
       /\ CASE HashStep(a) = "use" -> ImgUse(Hash("store", a))
            [] HashStep(a) = "fail" -> ImgFail("could not resolve key")
            [] OTHER -> /\ imgPc' = "file"
                        /\ UNCHANGED <<imgIdx, imgOut, imgRet>>
  /\ UNCHANGED <<plugin, seedvars, volvars, imgArgs>>

findImages_Open ==
  /\ imgPc = "file"
  /\ LET a == imgArgs[imgIdx] IN
       /\ imgCalls' = imgCalls \o <<ImgCall("Open")>> \o
                        (IF a.file THEN <<ImgCall("WriteACI")>> ELSE <<>>)
       /\ IF a.file
            THEN IF a.write THEN ImgUse(Hash("import", a))
                            ELSE ImgFail("write")
            ELSE /\ imgPc' = "fetch"
                 /\ UNCHANGED <<imgIdx, imgOut, imgRet>>
  /\ UNCHANGED <<plugin, seedvars, volvars, imgArgs>>

findImages_fetchImage ==
  /\ imgPc = "fetch"
  /\ LET a == imgArgs[imgIdx] IN
       /\ imgCalls' = Append(imgCalls, ImgCall("fetchImage"))
       /\ IF a.fetch THEN ImgUse(Hash("fetch", a)) ELSE ImgFail("fetch")
  /\ UNCHANGED <<plugin, seedvars, volvars, imgArgs>>

\* return out, nil
findImages_return ==
  /\ imgPc = "hash" /\ imgIdx > Len(imgArgs)
  /\ imgRet' = [out |-> imgOut, err |-> ""]
  /\ imgPc' = "returned"
  /\ UNCHANGED <<plugin, seedvars, volvars, imgArgs, imgIdx, imgOut, imgCalls>>

NextImages ==
  \/ findImages_NewHash
  \/ findImages_Open
  \/ findImages_fetchImage
  \/ findImages_return
SpecImages == InitImages /\ [][NextImages]_vars

\* the first alternative an argument matches, and whether it yields a hash
FirstMatch(a) ==
  IF a.hash THEN "store" ELSE IF a.file THEN "import" ELSE "fetch"
Yields(a) ==
  \/ a.hash /\ a.resolves
  \/ ~a.hash /\ a.file /\ a.write
  \/ ~a.hash /\ ~a.file /\ a.fetch
\* the attempts made for argument k, in order
Attempts(k, a) ==
  IF a.hash THEN << <<k, "NewHash">>, <<k, "ResolveKey">> >>
  ELSE IF a.file THEN << <<k, "NewHash">>, <<k, "Open">>, <<k, "WriteACI">> >>
  ELSE << <<k, "NewHash">>, <<k, "Open">>, <<k, "fetchImage">> >>
\* the attempts of a whole run: argument by argument up to the first that
\* yields no hash
RECURSIVE AttemptsFrom(_, _)
AttemptsFrom(k, args) ==
  IF k > Len(args) THEN <<>>
  ELSE Attempts(k, args[k]) \o
         (IF Yields(args[k]) THEN AttemptsFrom(k + 1, args) ELSE <<>>)
IsPrefix(s, t) == Len(s) <= Len(t) /\ s = SubSeq(t, 1, Len(s))

\* C19: each argument is tried as a hash, then as a local file, then by
\* fetch, and the first match is used; a well-formed hash the store does
\* not resolve fails the call with no file or fetch attempt; a failing
\* argument gives an error and no hashes, and otherwise there is one hash
\* per argument in argument order.
C19_ResolutionOrder ==
  /\ IsPrefix(imgCalls, AttemptsFrom(1, imgArgs))
  /\ imgPc = "returned" =>
       /\ imgCalls = AttemptsFrom(1, imgArgs)
       /\ IF \A k \in 1..Len(imgArgs) : Yields(imgArgs[k])
            THEN /\ imgRet.err = ""
                 /\ Len(imgRet.out) = Len(imgArgs)
                 /\ \A k \in 1..Len(imgArgs) :
                      imgRet.out[k] = Hash(FirstMatch(imgArgs[k]), imgArgs[k])
            ELSE imgRet.err # "" /\ imgRet.out = <<>>
C19_Witness ==
  /\ imgPc = "returned" /\ Len(imgArgs) = 2
  /\ ~imgArgs[1].hash /\ imgArgs[1].file /\ imgOut[1].via = "import"
  /\ imgArgs[2].hash /\ ~imgArgs[2].resolves
  /\ imgArgs[2].file /\ imgArgs[2].write /\ imgArgs[2].fetch
  /\ imgRet = [out |-> <<>>, err |-> "could not resolve key"]
  /\ imgCalls[Len(imgCalls)] = <<2, "ResolveKey">>

\* ----------------------------------------------------------- volumeMap.Set
MaxStrLen == 3
MaxSets == 2

\* a string is the sequence of its characters
VolChars == {"a", ":"}
VolStrings == UNION {[1..n -> VolChars] : n \in 0..MaxStrLen}
EmptyMap == [k \in {} |-> <<>>]

\* flagVolumes = volumeMap{}
InitVolumes ==
  /\ PluginInit /\ SeedIdle /\ ImgIdle
  /\ flagVolumes = EmptyMap
  /\ volErr = ""
  /\ volHist = <<>>

\* strings.Split(s, ":"): the pieces between the colons, one more than
\* there are colons
RECURSIVE SplitFrom(_, _, _)
SplitFrom(s, k, piece) ==
  IF k > Len(s) THEN <<piece>>
  ELSE IF s[k] = ":" THEN <<piece>> \o SplitFrom(s, k + 1, <<>>)
  ELSE SplitFrom(s, k + 1, Append(piece, s[k]))
Split(s) == SplitFrom(s, 1, <<>>)

\* a label given twice replaces the earlier path
Present_Never(vm, key) == FALSE

\* _, ok := (*vm)[key]
Present(vm, key) == key \in DOMAIN vm

\* the map and the error a Set(s) on vm ends with
SetResult(vm, s) ==
  LET elems == Split(s) IN
    IF Len(elems) # 2
      THEN [vm |-> vm, err |-> "volume must be of form key:path"]
    ELSE IF Present(vm, elems[1])
      THEN [vm |-> vm, err |-> "got multiple flags for volume"]
    ELSE [vm |-> [k \in DOMAIN vm \cup {elems[1]} |->
                    IF k = elems[1] THEN elems[2] ELSE vm[k]],
          err |-> ""]

volumeMap_Set ==
  /\ Len(volHist) < MaxSets
  /\ \E s \in VolStrings :
       LET r == SetResult(flagVolumes, s) IN
         /\ flagVolumes' = r.vm
         /\ volErr' = r.err
         /\ volHist' = Append(volHist, [s |-> s, err |-> r.err, vm |-> r.vm])
  /\ UNCHANGED <<plugin, seedvars, imgvars>>

NextVolumes == volumeMap_Set
SpecVolumes == InitVolumes /\ [][NextVolumes]_vars

\* the colons of a string, and the label and path of a string with one
Colons(s) == Cardinality({j \in DOMAIN s : s[j] = ":"})
ColonAt(s) == CHOOSE j \in DOMAIN s : s[j] = ":"
Label(s) == SubSeq(s, 1, ColonAt(s) - 1)
Path(s) == SubSeq(s, ColonAt(s) + 1, Len(s))
\* the map the j-th Set found
MapBefore(j) == IF j = 1 THEN EmptyMap ELSE volHist[j - 1].vm
Accepted(j) == volHist[j].err = ""

\* C20: a Set whose string has not exactly two parts around ':' or whose
\* label is already in the map returns an error and leaves the map as it
\* was, any other Set adds its label with its path; so each label of the
\* map has the path of the first accepted Set for that label.
C20_FirstSetWins ==
  /\ \A j \in DOMAIN volHist :
       LET h == volHist[j]
           before == MapBefore(j)
       IN IF Colons(h.s) = 1 /\ Label(h.s) \notin DOMAIN before
            THEN /\ h.err = ""
                 /\ DOMAIN h.vm = DOMAIN before \cup {Label(h.s)}
                 /\ h.vm[Label(h.s)] = Path(h.s)
                 /\ \A k \in DOMAIN before : h.vm[k] = before[k]
            ELSE h.err # "" /\ h.vm = before
  /\ flagVolumes = MapBefore(Len(volHist) + 1)
  /\ volHist # <<>> => volErr = volHist[Len(volHist)].err
  /\ \A k \in DOMAIN flagVolumes :
       \E j \in DOMAIN volHist :
         /\ Accepted(j) /\ Label(volHist[j].s) = k
         /\ flagVolumes[k] = Path(volHist[j].s)
         /\ \A m \in 1..(j - 1) :
              ~(Accepted(m) /\ Label(volHist[m].s) = k)
C20_Witness ==
  /\ Len(volHist) = 2
  /\ volHist[1].s = <<"a", ":">> /\ Accepted(1)
  /\ volHist[2].s = <<"a", ":", "a">>
  /\ volErr = "got multiple flags for volume"
  /\ flagVolumes[<<"a">>] = <<>>
====
